---- MODULE Spec2Model ----
(***************************************************************************)
(* Model of the decision logic of gui-playground:                          *)
(*   - mastermind.rs: evaluate_guess, convert_working_row_if_completed,    *)
(*     guess_circles_ij::get_containing_ij and MastermindGame::update;     *)
(*   - turn_time_tracker.rs: InfiniteIterator and                          *)
(*     TurnTimeTrackerState::evaluate_state.                               *)
(* Four specifications share the module:                                   *)
(*   EvalSpec   - evaluate_guess applied to every pair of rows;            *)
(*   Spec       - the puzzle driven by one update() per frame;             *)
(*   PuzzleSpec - the runs of EvalSpec and of Spec together;               *)
(*   TimerSpec  - the turn timer driven by add_player and evaluate_state.  *)
(* Arrays are 1-based here and 0-based in the source; indexes returned by  *)
(* get_containing_ij and current_index keep the source's 0-based values.   *)
(***************************************************************************)
EXTENDS Integers, Sequences, FiniteSets, TLC

VARIABLES
    \* MastermindGame
    state,          \* GameState: InProgress{working_row} | Victory | TooManyGuesses
    password,       \* [Color; NUM_SLOTS_PER_ROW]
    history,        \* Vec<CompleteRow>, head = first guess
    mouse_color,    \* Color
    \* the inputs update() polled in the last frame (macroquad's input state)
    frame,
    \* TurnTimeTrackerState
    items,          \* InfiniteIterator.items: Vec<Player>
    current_index,  \* InfiniteIterator.current_index
    timer,          \* TimerState: Paused | Running{last_tick}
    panicked,       \* TRUE once a panic!/expect has aborted the process
    tick,           \* the inputs evaluate_state() polled in the last frame, if any
    \* tests::test_evaluate_guess
    guess,          \* tc.guess
    pword,          \* tc.pword
    actual          \* evaluate_guess(tc.guess, tc.pword), or NoRow before the call

gameVars  == <<state, password, history, mouse_color, frame>>
timerVars == <<items, current_index, timer, panicked, tick>>
evalVars  == <<guess, pword, actual>>
vars      == <<gameVars, timerVars, evalVars>>

-----------------------------------------------------------------------------
(* Game logic consts, mastermind.rs:13-23 *)

NUM_COLORS == 6
COLOR_PALETTE == <<"Red", "Orange", "Yellow", "Green", "Blue", "Purple">>
NUM_SLOTS_PER_ROW == 4
NUM_GUESSES == 8

(* Draw consts used by the hit test, mastermind.rs:29-34 *)
BOARD_OFFSET_X == 20
BOARD_OFFSET_Y == 20
ROW_SEPARATOR_HEIGHT == 1
SLOT_SIZE == 50
SLOT_PADDING == 5

Color == {COLOR_PALETTE[k] : k \in 1..NUM_COLORS}
None == "None"            \* Option<Color>::None in a working row slot
Nothing == <<>>            \* Option::None of the other Option types
Some(v) == <<v>>
Slots == 1..NUM_SLOTS_PER_ROW
Rows == [Slots -> Color]
Min(a, b) == IF a <= b THEN a ELSE b

-----------------------------------------------------------------------------
(* evaluate_guess, mastermind.rs:553-589 *)

\* Fault of the first pass: insert(c, 1) in place of the counting entry
EntryIncrement_NoCount(map, c) ==
    [k \in DOMAIN map \cup {c} |-> IF k = c THEN 1 ELSE map[k]]

\* HashMap entry(c).or_insert(0) += 1
EntryIncrement(map, c) ==
    IF c \in DOMAIN map
    THEN [map EXCEPT ![c] = @ + 1]
    ELSE [k \in DOMAIN map \cup {c} |-> IF k = c THEN 1 ELSE map[k]]

EmptyMap == [k \in {} |-> 0]

\* Fault of the first pass: the colours of matching slots are counted too
RECURSIVE FirstPass_CountAll(_, _, _, _)
FirstPass_CountAll(g, p, i, acc) ==
    IF i > NUM_SLOTS_PER_ROW THEN acc
    ELSE LET counted == [acc EXCEPT !.guess_colors = EntryIncrement(@, g[i]),
                                    !.password_colors = EntryIncrement(@, p[i])]
         IN  IF g[i] = p[i]
             THEN FirstPass_CountAll(g, p, i + 1,
                                     [counted EXCEPT !.num_correct_hits = @ + 1])
             ELSE FirstPass_CountAll(g, p, i + 1, counted)

\* Fault of the first pass: the loop stops one slot short
RECURSIVE FirstPass_OffByOne(_, _, _, _)
FirstPass_OffByOne(g, p, i, acc) ==
    IF i > NUM_SLOTS_PER_ROW - 1 THEN acc
    ELSE IF g[i] = p[i]
         THEN FirstPass_OffByOne(g, p, i + 1,
                                 [acc EXCEPT !.num_correct_hits = @ + 1])
         ELSE FirstPass_OffByOne(g, p, i + 1,
                                 [acc EXCEPT !.guess_colors = EntryIncrement(@, g[i]),
                                             !.password_colors = EntryIncrement(@, p[i])])

\* First pass: the loop over i in 0..NUM_SLOTS_PER_ROW, from slot i on.
RECURSIVE FirstPass(_, _, _, _)
FirstPass(g, p, i, acc) ==
    IF i > NUM_SLOTS_PER_ROW THEN acc
    ELSE IF g[i] = p[i]
         THEN FirstPass(g, p, i + 1,
                        [acc EXCEPT !.num_correct_hits = @ + 1])
         ELSE FirstPass(g, p, i + 1,
                        [acc EXCEPT !.guess_colors = EntryIncrement(@, g[i]),
                                    !.password_colors = EntryIncrement(@, p[i])])

\* password_colors.remove(&color).unwrap_or(0)
RemoveOrZero(map, c) == IF c \in DOMAIN map THEN map[c] ELSE 0

\* Faults of the second pass: every leftover guess peg whose colour is left
\* over in the password counted, and max for min
MisplacedTerm_AnyMatch(guess_color_count, password_color_count) ==
    IF password_color_count > 0 THEN guess_color_count ELSE 0

MisplacedTerm_Max(guess_color_count, password_color_count) ==
    IF guess_color_count >= password_color_count
    THEN guess_color_count ELSE password_color_count

MisplacedTerm(guess_color_count, password_color_count) ==
    Min(guess_color_count, password_color_count)

\* Second pass: the loop over the entries of guess_colors still to visit.
\* A key is visited once, so remove() never sees a key it already removed.
RECURSIVE SecondPass(_, _, _)
SecondPass(guess_colors, password_colors, todo) ==
    IF todo = {} THEN 0
    ELSE LET color == CHOOSE c \in todo : TRUE
         IN  MisplacedTerm(guess_colors[color], RemoveOrZero(password_colors, color))
             + SecondPass(guess_colors, password_colors, todo \ {color})

evaluate_guess(g, p) ==
    LET first == FirstPass(g, p, 1, [num_correct_hits |-> 0,
                                     guess_colors |-> EmptyMap,
                                     password_colors |-> EmptyMap])
    IN  [guess |-> g,
         num_correct_hits |-> first.num_correct_hits,
         num_misplaced_hits |-> SecondPass(first.guess_colors, first.password_colors,
                                           DOMAIN first.guess_colors)]

\* Fault of the completion test: the last slot is not looked at
convert_working_row_if_completed_Short(working_row) ==
    IF \E i \in 1..(NUM_SLOTS_PER_ROW - 1) : working_row[i] = None
    THEN Nothing
    ELSE <<working_row[1], working_row[2], working_row[3], working_row[4]>>

\* convert_working_row_if_completed, mastermind.rs:532-551
convert_working_row_if_completed(working_row) ==
    IF \E i \in Slots : working_row[i] = None
    THEN Nothing
    ELSE <<working_row[1], working_row[2], working_row[3], working_row[4]>>

-----------------------------------------------------------------------------
(* guess_circles_ij::get_containing_ij, mastermind.rs:463-492.  Mouse       *)
(* coordinates are whole pixels, on which the f32 arithmetic is exact.     *)

RECURSIVE ContainingI(_, _)
ContainingI(x, i) ==
    IF x < 0 \/ i >= NUM_SLOTS_PER_ROW THEN Nothing
    ELSE IF x <= SLOT_SIZE THEN Some(i)
    ELSE ContainingI(x - (SLOT_SIZE + SLOT_PADDING), i + 1)

RECURSIVE ContainingJ(_, _)
ContainingJ(y, j) ==
    IF y < 0 \/ j >= NUM_GUESSES + 1 THEN Nothing
    ELSE IF y <= SLOT_SIZE THEN Some(j)
    ELSE ContainingJ(y - (SLOT_SIZE + SLOT_PADDING + ROW_SEPARATOR_HEIGHT + SLOT_PADDING),
                     j + 1)

get_containing_ij(x, y) ==
    LET i == ContainingI(x - (BOARD_OFFSET_X + SLOT_PADDING), 0)
        j == ContainingJ(y - (BOARD_OFFSET_Y + SLOT_PADDING), 0)
    IN  IF i = Nothing THEN Nothing
        ELSE IF j = Nothing THEN Nothing
        ELSE <<i[1], j[1]>>

\* MastermindGame::get_color_from_key_press, mastermind.rs:157-182.
\* pressed is the set of number keys (1..9) that went down in this frame.
NUM_KEYS == 9

RECURSIVE ColorFromKeyPress(_, _)
ColorFromKeyPress(pressed, i) ==
    IF i >= NUM_KEYS \/ i >= NUM_COLORS THEN None
    ELSE IF (i + 1) \in pressed THEN COLOR_PALETTE[i + 1]
    ELSE ColorFromKeyPress(pressed, i + 1)

get_color_from_key_press(pressed) == ColorFromKeyPress(pressed, 0)

-----------------------------------------------------------------------------
(* MastermindGame, mastermind.rs:45-155.  The field mouse_moved is read    *)
(* by draw() alone and is left out.                                        *)

InProgress(working_row) == [tag |-> "InProgress", working_row |-> working_row]
Victory == [tag |-> "Victory"]
TooManyGuesses == [tag |-> "TooManyGuesses"]
EmptyRow == [i \in Slots |-> None]

\* MastermindGame::new with the four Color::random() draws giving pw
NewGame(pw) ==
    [state |-> InProgress(EmptyRow),
     password |-> pw,
     history |-> <<>>,
     mouse_color |-> COLOR_PALETTE[1]]

\* "Update mouse color if needed", mastermind.rs:115-118
UpdateMouseColor(self, pressed) ==
    LET new_color == get_color_from_key_press(pressed)
    IN  IF new_color # None THEN [self EXCEPT !.mouse_color = new_color] ELSE self

\* Fault of the click: a slot that already holds a colour is left as it is
UpdateWorkingRow_KeepFirst(self, click) ==
    IF click = Nothing THEN self
    ELSE LET ij == get_containing_ij(click[1], click[2])
         IN  IF ij = Nothing THEN self
             ELSE IF /\ ij[2] = NUM_GUESSES - Len(self.history)
                     /\ self.state.working_row[ij[1] + 1] = None
                  THEN [self EXCEPT !.state.working_row[ij[1] + 1] = self.mouse_color]
                  ELSE self

\* "Update working row's color if needed", mastermind.rs:120-128.
\* click is Nothing (button not pressed) or the mouse position <<x, y>>.
UpdateWorkingRow(self, click) ==
    IF click = Nothing THEN self
    ELSE LET ij == get_containing_ij(click[1], click[2])
         IN  IF ij = Nothing THEN self
             ELSE IF ij[2] = NUM_GUESSES - Len(self.history)
                  THEN [self EXCEPT !.state.working_row[ij[1] + 1] = self.mouse_color]
                  ELSE self

\* Faults of the transition: the loss declared one guess early, and the
\* guess limit tested before the win
StateAfterGuess_LostEarly(complete_row, history_len) ==
    IF complete_row.num_correct_hits = NUM_SLOTS_PER_ROW THEN Victory
    ELSE IF history_len >= NUM_GUESSES - 1 THEN TooManyGuesses
    ELSE InProgress(EmptyRow)

StateAfterGuess_LimitFirst(complete_row, history_len) ==
    IF history_len = NUM_GUESSES THEN TooManyGuesses
    ELSE IF complete_row.num_correct_hits = NUM_SLOTS_PER_ROW THEN Victory
    ELSE InProgress(EmptyRow)

\* The transition after a scored guess was pushed, mastermind.rs:136-144
StateAfterGuess(complete_row, history_len) ==
    IF complete_row.num_correct_hits = NUM_SLOTS_PER_ROW THEN Victory
    ELSE IF history_len = NUM_GUESSES THEN TooManyGuesses
    ELSE InProgress(EmptyRow)

\* Faults of the guess: the scored guess is put at the head of the history;
\* the colours of the scored row stay on the board for the next guess
ApplyGuess_PushFront(self, submit) ==
    IF ~submit THEN self
    ELSE LET g == convert_working_row_if_completed(self.state.working_row)
         IN  IF g = Nothing THEN self
             ELSE LET complete_row == evaluate_guess(g, self.password)
                      pushed == <<complete_row>> \o self.history
                  IN  [self EXCEPT !.history = pushed,
                                   !.state = StateAfterGuess(complete_row, Len(pushed))]

ApplyGuess_KeepRow(self, submit) ==
    IF ~submit THEN self
    ELSE LET g == convert_working_row_if_completed(self.state.working_row)
         IN  IF g = Nothing THEN self
             ELSE LET complete_row == evaluate_guess(g, self.password)
                      pushed == Append(self.history, complete_row)
                      next == StateAfterGuess(complete_row, Len(pushed))
                  IN  [self EXCEPT !.history = pushed,
                                   !.state = IF next.tag = "InProgress"
                                             THEN self.state ELSE next]

\* "Apply guess if needed", mastermind.rs:130-146
ApplyGuess(self, submit) ==
    IF ~submit THEN self
    ELSE LET g == convert_working_row_if_completed(self.state.working_row)
         IN  IF g = Nothing THEN self
             ELSE LET complete_row == evaluate_guess(g, self.password)
                      pushed == Append(self.history, complete_row)
                  IN  [self EXCEPT !.history = pushed,
                                   !.state = StateAfterGuess(complete_row, Len(pushed))]

\* Fault of the order within a frame: the submit key is handled before the
\* click
update_SubmitFirst(self, pressed, click, submit) ==
    IF self.state.tag = "InProgress"
    THEN LET applied == ApplyGuess(UpdateMouseColor(self, pressed), submit)
         IN  IF applied.state.tag = "InProgress"
             THEN UpdateWorkingRow(applied, click)
             ELSE applied
    ELSE self

\* Fault of the terminal arms ("Check for restart keypress"): the submit key
\* starts a new game
update_Restart(self, pressed, click, submit) ==
    IF self.state.tag = "InProgress"
    THEN ApplyGuess(UpdateWorkingRow(UpdateMouseColor(self, pressed), click), submit)
    ELSE IF submit THEN [NewGame(self.password) EXCEPT !.mouse_color = self.mouse_color]
    ELSE self

\* MastermindGame::update, mastermind.rs:108-155: one frame with the polled
\* inputs pressed (number keys), click (left button) and submit (space).
update(self, pressed, click, submit) ==
    IF self.state.tag = "InProgress"
    THEN ApplyGuess(UpdateWorkingRow(UpdateMouseColor(self, pressed), click), submit)
    ELSE self

-----------------------------------------------------------------------------
(* turn_time_tracker.rs.  A Player is its num_turns and total_time; the    *)
(* display name and colour take no part in the logic.  Instants and        *)
(* durations are whole time units.                                         *)

\* Player::new, turn_time_tracker.rs:164-173
NewPlayer == [num_turns |-> 0, total_time |-> 0]

Paused == [tag |-> "Paused"]
Running(last_tick) == [tag |-> "Running", last_tick |-> last_tick]

\* TurnTimeTrackerState::new and InfiniteIterator::new
NewTracker ==
    [items |-> <<>>, current_index |-> 0, timer |-> Paused, panicked |-> FALSE]

\* InfiniteIterator::push, turn_time_tracker.rs:191-193
push(self, item) == [self EXCEPT !.items = Append(@, item)]

\* InfiniteIterator::check_invariants, turn_time_tracker.rs:195-202:
\* TRUE when it returns, FALSE when it panics
check_invariants(self) ==
    IF Len(self.items) = 0 THEN FALSE
    ELSE IF self.current_index >= Len(self.items) THEN FALSE
    ELSE TRUE

\* Faults of increment: the index wraps one step late; it is not wrapped
increment_WrapLate(self) ==
    IF Len(self.items) = 0
    THEN [self EXCEPT !.panicked = TRUE]
    ELSE [self EXCEPT !.current_index = (self.current_index + 1) % (Len(self.items) + 1)]

increment_NoWrap(self) ==
    IF Len(self.items) = 0
    THEN [self EXCEPT !.panicked = TRUE]
    ELSE [self EXCEPT !.current_index = self.current_index + 1]

\* InfiniteIterator::increment, turn_time_tracker.rs:209-215
increment(self) ==
    IF Len(self.items) = 0
    THEN [self EXCEPT !.panicked = TRUE]
    ELSE [self EXCEPT !.current_index = (self.current_index + 1) % Len(self.items)]

\* Fault of the tick: last_tick is not moved to now
TickCurrentPlayer_NoFlush(self, now) ==
    LET cur == self.current_index + 1
        elapsed_tick_time == now - self.timer.last_tick
        ticked == [self.items[cur] EXCEPT !.total_time = @ + elapsed_tick_time]
        fixed == IF ticked.num_turns = 0
                 THEN [ticked EXCEPT !.num_turns = 1]
                 ELSE ticked
    IN  [self EXCEPT !.items[cur] = fixed]

\* Faults of the tick: every tick counts a turn; the first tick counts none;
\* the elapsed time is credited to every player
TickCurrentPlayer_AlwaysCount(self, now) ==
    LET cur == self.current_index + 1
        elapsed_tick_time == now - self.timer.last_tick
    IN  [self EXCEPT !.items[cur].total_time = @ + elapsed_tick_time,
                     !.items[cur].num_turns = @ + 1,
                     !.timer = Running(now)]

TickCurrentPlayer_NoBandAid(self, now) ==
    LET cur == self.current_index + 1
        elapsed_tick_time == now - self.timer.last_tick
    IN  [self EXCEPT !.items[cur].total_time = @ + elapsed_tick_time,
                     !.timer = Running(now)]

TickCurrentPlayer_AllPlayers(self, now) ==
    LET cur == self.current_index + 1
        elapsed_tick_time == now - self.timer.last_tick
        ticked == [k \in 1..Len(self.items) |->
                      [self.items[k] EXCEPT !.total_time = @ + elapsed_tick_time]]
        fixed == IF ticked[cur].num_turns = 0
                 THEN [ticked EXCEPT ![cur].num_turns = 1]
                 ELSE ticked
    IN  [self EXCEPT !.items = fixed, !.timer = Running(now)]

\* "Tick current player", turn_time_tracker.rs:64-75, once current_mut() and
\* duration_since() have succeeded
TickCurrentPlayer(self, now) ==
    LET cur == self.current_index + 1
        elapsed_tick_time == now - self.timer.last_tick
        ticked == [self.items[cur] EXCEPT !.total_time = @ + elapsed_tick_time]
        fixed == IF ticked.num_turns = 0
                 THEN [ticked EXCEPT !.num_turns = 1]
                 ELSE ticked
    IN  [self EXCEPT !.items[cur] = fixed, !.timer = Running(now)]

\* "Change current player if needed", turn_time_tracker.rs:77-83: increment()
\* has stored the index when current_mut() looks at it
ChangeCurrentPlayer(self, next_pressed) ==
    IF ~next_pressed THEN self
    ELSE LET inc == increment(self)
         IN  IF inc.panicked THEN inc
             ELSE IF ~check_invariants(inc) THEN [inc EXCEPT !.panicked = TRUE]
             ELSE [inc EXCEPT !.items[inc.current_index + 1].num_turns = @ + 1]

\* Faults of the pause check: the tick and the change still run in the frame
\* that pauses; the next key is read where the pause key is meant
evaluate_state_NoReturn(self, now, pause_pressed, next_pressed) ==
    IF self.timer.tag = "Paused"
    THEN IF pause_pressed THEN [self EXCEPT !.timer = Running(now)] ELSE self
    ELSE IF ~check_invariants(self) THEN [self EXCEPT !.panicked = TRUE]
    ELSE IF now < self.timer.last_tick THEN [self EXCEPT !.panicked = TRUE]
    ELSE IF pause_pressed
         THEN [ChangeCurrentPlayer(TickCurrentPlayer(self, now), next_pressed)
                   EXCEPT !.timer = Paused]
    ELSE ChangeCurrentPlayer(TickCurrentPlayer(self, now), next_pressed)

evaluate_state_WrongKey(self, now, pause_pressed, next_pressed) ==
    IF self.timer.tag = "Paused"
    THEN IF pause_pressed THEN [self EXCEPT !.timer = Running(now)] ELSE self
    ELSE IF next_pressed THEN [self EXCEPT !.timer = Paused]
    ELSE IF ~check_invariants(self) THEN [self EXCEPT !.panicked = TRUE]
    ELSE IF now < self.timer.last_tick THEN [self EXCEPT !.panicked = TRUE]
    ELSE ChangeCurrentPlayer(TickCurrentPlayer(self, now), next_pressed)

\* Fault of the Paused arm: the next key changes the player while paused
evaluate_state_NextWhilePaused(self, now, pause_pressed, next_pressed) ==
    IF self.timer.tag = "Paused"
    THEN LET changed == IF check_invariants(self)
                        THEN ChangeCurrentPlayer(self, next_pressed)
                        ELSE self
         IN  IF pause_pressed THEN [changed EXCEPT !.timer = Running(now)] ELSE changed
    ELSE IF pause_pressed THEN [self EXCEPT !.timer = Paused]
    ELSE IF ~check_invariants(self) THEN [self EXCEPT !.panicked = TRUE]
    ELSE IF now < self.timer.last_tick THEN [self EXCEPT !.panicked = TRUE]
    ELSE ChangeCurrentPlayer(TickCurrentPlayer(self, now), next_pressed)

\* Faults of the guards: an empty roster is skipped in silence; a negative
\* elapsed time is clamped to zero
evaluate_state_SkipEmpty(self, now, pause_pressed, next_pressed) ==
    IF self.timer.tag = "Paused"
    THEN IF pause_pressed THEN [self EXCEPT !.timer = Running(now)] ELSE self
    ELSE IF pause_pressed THEN [self EXCEPT !.timer = Paused]
    ELSE IF Len(self.items) = 0 THEN [self EXCEPT !.timer = Running(now)]
    ELSE IF ~check_invariants(self) THEN [self EXCEPT !.panicked = TRUE]
    ELSE IF now < self.timer.last_tick THEN [self EXCEPT !.panicked = TRUE]
    ELSE ChangeCurrentPlayer(TickCurrentPlayer(self, now), next_pressed)

evaluate_state_Clamp(self, now, pause_pressed, next_pressed) ==
    IF self.timer.tag = "Paused"
    THEN IF pause_pressed THEN [self EXCEPT !.timer = Running(now)] ELSE self
    ELSE IF pause_pressed THEN [self EXCEPT !.timer = Paused]
    ELSE IF ~check_invariants(self) THEN [self EXCEPT !.panicked = TRUE]
    ELSE IF now < self.timer.last_tick
         THEN ChangeCurrentPlayer(
                  TickCurrentPlayer([self EXCEPT !.timer = Running(now)], now),
                  next_pressed)
    ELSE ChangeCurrentPlayer(TickCurrentPlayer(self, now), next_pressed)

\* Fault of the ordering: the player is changed before the tick
evaluate_state_ChangeFirst(self, now, pause_pressed, next_pressed) ==
    IF self.timer.tag = "Paused"
    THEN IF pause_pressed THEN [self EXCEPT !.timer = Running(now)] ELSE self
    ELSE IF pause_pressed THEN [self EXCEPT !.timer = Paused]
    ELSE IF ~check_invariants(self) THEN [self EXCEPT !.panicked = TRUE]
    ELSE IF now < self.timer.last_tick THEN [self EXCEPT !.panicked = TRUE]
    ELSE TickCurrentPlayer(ChangeCurrentPlayer(self, next_pressed), now)

\* TurnTimeTrackerState::evaluate_state, turn_time_tracker.rs:48-86, with the
\* polled keys pause_pressed (P) and next_pressed (space)
evaluate_state(self, now, pause_pressed, next_pressed) ==
    IF self.timer.tag = "Paused"
    THEN IF pause_pressed THEN [self EXCEPT !.timer = Running(now)] ELSE self
    ELSE IF pause_pressed THEN [self EXCEPT !.timer = Paused]
    ELSE IF ~check_invariants(self) THEN [self EXCEPT !.panicked = TRUE]
    ELSE IF now < self.timer.last_tick THEN [self EXCEPT !.panicked = TRUE]
    ELSE ChangeCurrentPlayer(TickCurrentPlayer(self, now), next_pressed)

-----------------------------------------------------------------------------
(* Bounds and input sets *)

MaxPlayers == 3         \* players added to the roster
MaxTime == 2            \* instants are 0..MaxTime
MaxTotalTime == 2       \* cap on a player's total_time
MaxTurns == 2           \* cap on a player's num_turns

\* The hidden rows Color::random() may have drawn
Passwords ==
    { <<"Orange", "Orange", "Orange", "Orange">>,
      <<"Orange", "Red", "Red", "Orange">>,
      <<"Red", "Orange", "Yellow", "Green">> }

\* Number keys pressed in a frame: none, key 2 (Orange), keys 2 and 7
\* together (key 7 has no colour)
KeyInputs == { {}, {2}, {2, 7} }

\* Centre of slot i of row j, compute_xy_coordinates, mastermind.rs:436-451
SlotX(i) == BOARD_OFFSET_X + (SLOT_SIZE \div 2) + SLOT_SIZE * i + SLOT_PADDING * (i + 1)
SlotY(j) == BOARD_OFFSET_Y + (SLOT_SIZE \div 2) + SLOT_SIZE * j
            + SLOT_PADDING * (j * 2 + 1) + ROW_SEPARATOR_HEIGHT * j

\* Left clicks of a frame when history_len guesses are on the board: none,
\* the centre of every slot of the working row, the first slot of the rows
\* above and below it, the padding between the first two slots of the
\* working row, and a point left of the board
ClickInputs(history_len) ==
    LET j == NUM_GUESSES - history_len
    IN  {Nothing}
        \cup { <<SlotX(i), SlotY(j)>> : i \in 0..(NUM_SLOTS_PER_ROW - 1) }
        \cup { <<SlotX(0), SlotY(j - 1)>>, <<SlotX(0), SlotY(j + 1)>>,
               <<SlotX(0) + (SLOT_SIZE \div 2) + 3, SlotY(j)>>,
               <<BOARD_OFFSET_X - 1, SlotY(j)>> }

-----------------------------------------------------------------------------
(* State machines *)

Game == [state |-> state, password |-> password, history |-> history,
         mouse_color |-> mouse_color]
Tracker == [items |-> items, current_index |-> current_index, timer |-> timer,
            panicked |-> panicked]

GameIs(g) ==
    /\ state = g.state
    /\ password = g.password
    /\ history = g.history
    /\ mouse_color = g.mouse_color

GameInit ==
    /\ \E pw \in Passwords : GameIs(NewGame(pw))
    /\ frame = [submit |-> FALSE]

TrackerInit ==
    /\ items = NewTracker.items
    /\ current_index = NewTracker.current_index
    /\ timer = NewTracker.timer
    /\ panicked = NewTracker.panicked
    /\ tick = Nothing

EvalIdle ==
    /\ guess = Nothing
    /\ pword = Nothing
    /\ actual = Nothing

\* One frame of the puzzle: StatefulGui::update, mastermind.rs:75-77
Update ==
    \E pressed \in KeyInputs, click \in ClickInputs(Len(history)), submit \in BOOLEAN :
        \E g \in {update(Game, pressed, click, submit)} :
            /\ state' = g.state
            /\ password' = g.password
            /\ history' = g.history
            /\ mouse_color' = g.mouse_color
            /\ frame' = [submit |-> submit]
            /\ UNCHANGED <<timerVars, evalVars>>

Init == GameInit /\ TrackerInit /\ EvalIdle
Next == Update
Spec == Init /\ [][Next]_vars

TrackerBecomes(t) ==
    /\ items' = t.items
    /\ current_index' = t.current_index
    /\ timer' = t.timer
    /\ panicked' = t.panicked

WithinCaps(t) ==
    \A k \in 1..Len(t.items) :
        t.items[k].total_time <= MaxTotalTime /\ t.items[k].num_turns <= MaxTurns

\* TurnTimeTrackerState::add_player, turn_time_tracker.rs:44-46
AddPlayer ==
    /\ ~panicked
    /\ Len(items) < MaxPlayers
    /\ TrackerBecomes(push(Tracker, NewPlayer))
    /\ tick' = tick
    /\ UNCHANGED <<gameVars, evalVars>>

\* One frame of the tracker: StatefulGui::update, turn_time_tracker.rs:20-22
Tick ==
    /\ ~panicked
    /\ \E now \in 0..MaxTime, pause_pressed \in BOOLEAN, next_pressed \in BOOLEAN :
        \E t \in {evaluate_state(Tracker, now, pause_pressed, next_pressed)} :
            /\ WithinCaps(t)
            /\ TrackerBecomes(t)
            /\ tick' = Some([now |-> now, pause_pressed |-> pause_pressed,
                             next_pressed |-> next_pressed])
    /\ UNCHANGED <<gameVars, evalVars>>

TimerInit ==
    /\ GameIs(NewGame(<<"Red", "Red", "Red", "Red">>))
    /\ frame = [submit |-> FALSE]
    /\ TrackerInit
    /\ EvalIdle
TimerNext == AddPlayer \/ Tick
TimerSpec == TimerInit /\ [][TimerNext]_vars

\* tests::test_evaluate_guess, mastermind.rs:605-635, over every pair of rows
EvalInit ==
    /\ GameIs(NewGame(<<"Red", "Red", "Red", "Red">>))
    /\ frame = [submit |-> FALSE]
    /\ TrackerInit
    /\ guess \in Rows
    /\ pword \in Rows
    /\ actual = Nothing
Evaluate ==
    /\ guess # Nothing
    /\ actual = Nothing
    /\ actual' = Some(evaluate_guess(guess, pword))
    /\ UNCHANGED <<guess, pword, gameVars, timerVars>>
EvalNext == Evaluate
EvalSpec == EvalInit /\ [][EvalNext]_vars

\* The evaluator on every pair of rows, and the puzzle that calls it
PuzzleInit == EvalInit \/ Init
PuzzleNext == Evaluate \/ (EvalIdle /\ Update)
PuzzleSpec == PuzzleInit /\ [][PuzzleNext]_vars

-----------------------------------------------------------------------------
(* Properties of evaluate_guess *)

A == "Red"
B == "Orange"
C == "Yellow"
D == "Green"

Evaluated == actual # Nothing
Hits(complete_row) == <<complete_row.num_correct_hits, complete_row.num_misplaced_hits>>

\* Number of slots where row holds v and differs from other
LeftoverCount(row, other, v) ==
    Cardinality({i \in Slots : row[i] # other[i] /\ row[i] = v})

RECURSIVE SumMinLeftover(_, _, _)
SumMinLeftover(g, p, values) ==
    IF values = {} THEN 0
    ELSE LET v == CHOOSE w \in values : TRUE
         IN  Min(LeftoverCount(g, p, v), LeftoverCount(p, g, v))
             + SumMinLeftover(g, p, values \ {v})

ExactHits(g, p) == Cardinality({i \in Slots : g[i] = p[i]})
ValueHits(g, p) == SumMinLeftover(g, p, {g[i] : i \in {k \in Slots : g[k] # p[k]}})

\* C1: for every pair of rows a, b of length 4 over the 6 colours,
\* evaluate_guess(a, b) and evaluate_guess(b, a) return the same number of
\* correct hits and the same number of misplaced hits.
C1_Symmetry ==
    Evaluated => Hits(actual[1]) = Hits(evaluate_guess(pword, guess))

\* A pair whose leftover colours have different multiplicities on the two sides
C1_Witness ==
    /\ Evaluated
    /\ guess = <<A, A, A, B>>
    /\ pword = <<B, C, A, A>>
    /\ Hits(actual[1]) = <<1, 2>>

\* C2: for every guess and password, the correct hits are the number of
\* slots where guess and password agree, and the misplaced hits are the sum,
\* over each colour among the guess's non-matching slots, of the smaller of
\* its count in the guess's non-matching slots and its count in the
\* password's non-matching slots; evaluate([A,C,A,B],[A,B,C,D]) = (1,2) and
\* evaluate([D,C,A,B],[A,B,C,D]) = (0,4).
C2_HitCounts ==
    Evaluated =>
        /\ actual[1].num_correct_hits = ExactHits(guess, pword)
        /\ actual[1].num_misplaced_hits = ValueHits(guess, pword)
        /\ (guess = <<A, C, A, B>> /\ pword = <<A, B, C, D>>
               => Hits(actual[1]) = <<1, 2>>)
        /\ (guess = <<D, C, A, B>> /\ pword = <<A, B, C, D>>
               => Hits(actual[1]) = <<0, 4>>)

C2_Witness ==
    /\ Evaluated
    /\ guess = <<A, C, A, B>>
    /\ pword = <<A, B, C, D>>
    /\ Hits(actual[1]) = <<1, 2>>

WithinRow(complete_row) ==
    /\ complete_row.num_correct_hits >= 0
    /\ complete_row.num_misplaced_hits >= 0
    /\ complete_row.num_correct_hits + complete_row.num_misplaced_hits
           <= NUM_SLOTS_PER_ROW

\* C3: for every guess and password, correct hits + misplaced hits <= 4 and
\* both are >= 0; so every CompleteRow stored in the history is within the
\* bound.
C3_Bound ==
    /\ Evaluated => WithinRow(actual[1])
    /\ \A k \in 1..Len(history) : WithinRow(history[k])

\* A stored row that meets the bound with misplaced hits only
C3_Witness ==
    /\ Len(history) >= 2
    /\ \E k \in 1..Len(history) : Hits(history[k]) = <<0, 4>>

-----------------------------------------------------------------------------
(* Properties of the puzzle.  Those that speak of one frame are stated, in  *)
(* every reachable state, of the frame update() would run on each input.   *)

Won == state.tag = "Victory"
Lost == state.tag = "TooManyGuesses"
Playing == state.tag = "InProgress"
Winning(complete_row) == complete_row.num_correct_hits = NUM_SLOTS_PER_ROW
NoWinIn(h) == \A k \in 1..Len(h) : ~Winning(h[k])
Last(h) == h[Len(h)]

FrameInputs ==
    { <<pressed, click, submit>> : pressed \in KeyInputs,
                                   click \in ClickInputs(Len(history)),
                                   submit \in BOOLEAN }

\* The game once the frame's colour key and click are applied, before the
\* submit key is looked at
BeforeSubmit(in) == UpdateWorkingRow(UpdateMouseColor(Game, in[1]), in[2])
AfterFrame(in) == update(Game, in[1], in[2], in[3])
RowComplete(working_row) == \A i \in Slots : working_row[i] # None

\* C4: evaluate_guess(a, a) = (4, 0) for every row a, and the correct hits
\* are 4 only when guess and password agree slot by slot; so the puzzle
\* enters Victory only on a submission whose guess is the password.
\* (The frames of the puzzle are looked at in the puzzle's runs, where the
\* evaluator's test harness is idle.)
C4_PerfectMatch ==
    /\ Evaluated =>
           /\ (guess = pword => Hits(actual[1]) = <<NUM_SLOTS_PER_ROW, 0>>)
           /\ (actual[1].num_correct_hits = NUM_SLOTS_PER_ROW => guess = pword)
    /\ Won => /\ Len(history) >= 1
              /\ Last(history).guess = password
              /\ Hits(Last(history)) = <<NUM_SLOTS_PER_ROW, 0>>
    /\ EvalIdle /\ Playing =>
           \A in \in FrameInputs :
               AfterFrame(in).state.tag = "Victory" =>
                   /\ in[3]
                   /\ BeforeSubmit(in).state.working_row = password
                   /\ AfterFrame(in).history
                          = Append(history, [guess |-> password,
                                             num_correct_hits |-> NUM_SLOTS_PER_ROW,
                                             num_misplaced_hits |-> 0])

\* Victory entered on the third guess, after two that missed
C4_Witness ==
    /\ Won
    /\ frame.submit
    /\ Len(history) = 3
    /\ Last(history).guess = password
    /\ password = <<B, A, A, B>>

\* C5: from a fresh puzzle, completed submissions none of which has 4 correct
\* hits leave the state InProgress while fewer than 8 are recorded and make
\* it TooManyGuesses exactly on the 8th, whatever slot clicks and incomplete
\* submits come in between.
C5_LostOnEighth ==
    /\ Len(history) <= NUM_GUESSES
    /\ NoWinIn(history) =>
           /\ Len(history) < NUM_GUESSES => Playing
           /\ Len(history) = NUM_GUESSES => Lost
    /\ Playing =>
           \A in \in FrameInputs :
               LET after == AfterFrame(in)
               IN  /\ in[3] /\ RowComplete(BeforeSubmit(in).state.working_row)
                          => Len(after.history) = Len(history) + 1
                   /\ Len(after.history) > Len(history) /\ ~Winning(Last(after.history))
                          => /\ Len(after.history) < NUM_GUESSES
                                    => after.state.tag = "InProgress"
                             /\ Len(after.history) = NUM_GUESSES
                                    => after.state.tag = "TooManyGuesses"
                   /\ after.state.tag = "TooManyGuesses"
                          => Len(history) = NUM_GUESSES - 1

C5_Witness ==
    /\ Lost
    /\ frame.submit
    /\ Len(history) = NUM_GUESSES
    /\ NoWinIn(history)

\* C6: a completed submission with 4 correct hits made while InProgress
\* gives Victory, whether it is the 1st or the 8th recorded guess: a winning
\* 8th guess gives Victory, not TooManyGuesses.
C6_WinHasPriority ==
    /\ Len(history) >= 1 /\ Winning(Last(history)) => Won
    /\ Playing =>
           \A in \in FrameInputs :
               LET after == AfterFrame(in)
               IN  in[3] /\ BeforeSubmit(in).state.working_row = password
                       => /\ after.state.tag = "Victory"
                          /\ Len(after.history) = Len(history) + 1
                          /\ Winning(Last(after.history))

\* Victory on the 8th guess
C6_Witness ==
    /\ Won
    /\ frame.submit
    /\ Len(history) = NUM_GUESSES
    /\ Winning(Last(history))

\* C7: a submit while a slot of the working row is empty appends nothing to
\* the history and leaves the state tag and every working row slot as they
\* were.
C7_CompletionGate ==
    Playing =>
        \A in \in FrameInputs :
            LET before == BeforeSubmit(in)
                after == AfterFrame(in)
            IN  in[3] /\ ~RowComplete(before.state.working_row)
                    => /\ after.history = history
                       /\ after.state.tag = "InProgress"
                       /\ \A i \in Slots :
                              after.state.working_row[i] = before.state.working_row[i]
                       /\ (in[2] = Nothing => after.state = state)

\* A frame with the submit key that left a half-filled row on the board
C7_Witness ==
    /\ Playing
    /\ frame.submit
    /\ \E i \in Slots : state.working_row[i] # None
    /\ state.working_row[NUM_SLOTS_PER_ROW] = None
    /\ Len(history) >= 1

Terminal == Won \/ Lost

\* C8: Victory and TooManyGuesses are absorbing: once the state is one of
\* them, no frame changes the state, the history or the password.
C8_Absorbing ==
    [][Terminal => /\ state' = state
                   /\ history' = history
                   /\ password' = password]_vars

\* A frame without the submit key polled after the game was won: Victory is
\* only ever entered by a frame with the submit key
C8_Witness ==
    /\ Won
    /\ ~frame.submit
    /\ Len(history) >= 2

-----------------------------------------------------------------------------
(* Properties of the turn timer, stated in every reachable state of the    *)
(* frame evaluate_state() would run at each instant now >= last_tick.      *)

IsRunning == ~panicked /\ timer.tag = "Running" /\ Len(items) >= 1
Players == 1..Len(items)
Current == current_index + 1
LaterInstants == {now \in 0..MaxTime : now >= timer.last_tick}

\* C9: in Running{last_tick = t0}, a tick at t1 >= t0 with neither the pause
\* key nor the next key adds exactly t1 - t0 to the current player's
\* total_time, changes no other player's total_time, leaves current_index
\* as it is and ends in Running{last_tick = t1}.
C9_TimerAttribution ==
    IsRunning =>
        \A now \in LaterInstants :
            LET after == evaluate_state(Tracker, now, FALSE, FALSE)
            IN  /\ ~after.panicked
                /\ Len(after.items) = Len(items)
                /\ after.items[Current].total_time
                       = items[Current].total_time + (now - timer.last_tick)
                /\ \A k \in Players \ {Current} :
                       after.items[k].total_time = items[k].total_time
                /\ after.current_index = current_index
                /\ after.timer = Running(now)

\* A frame with no key that credited one time unit to the second player
\* and nothing to the first
C9_Witness ==
    /\ tick # Nothing
    /\ ~tick[1].pause_pressed /\ ~tick[1].next_pressed
    /\ ~panicked
    /\ timer = Running(tick[1].now)
    /\ Len(items) >= 2
    /\ current_index = 1
    /\ items[1].total_time = 1
    /\ items[2].total_time = 1
    /\ tick[1].now = 2

\* C10 as written: in Running{last_tick = t0}, a tick at t1 with the next key
\* (and no pause key) credits t1 - t0 to the outgoing player, then advances
\* the cycle and adds 1 to the incoming player's num_turns; the outgoing
\* player's num_turns and the incoming player's total_time are not changed
\* by this tick.
C10_Original ==
    IsRunning =>
        \A now \in LaterInstants :
            LET after == evaluate_state(Tracker, now, FALSE, TRUE)
                incoming == after.current_index + 1
            IN  /\ after.items[Current].total_time
                       = items[Current].total_time + (now - timer.last_tick)
                /\ after.current_index = (current_index + 1) % Len(items)
                /\ after.items[incoming].num_turns = items[incoming].num_turns + 1
                /\ after.items[Current].num_turns = items[Current].num_turns
                /\ after.items[incoming].total_time = items[incoming].total_time

\* num_turns of player k once the tick's first-accrual fix is applied to the
\* outgoing player
AfterFix(k) ==
    IF k = Current /\ items[k].num_turns = 0 THEN 1 ELSE items[k].num_turns

\* C10, amended: such a tick credits t1 - t0 to the outgoing player, then
\* advances the cycle and adds 1 to the incoming player's num_turns.  With
\* two or more players the incoming player's total_time is not changed and
\* the outgoing player's num_turns changes only by the first-accrual fix
\* (0 becomes 1); with one player the outgoing player is the incoming one
\* and gets both the time and the increment.  No other player changes.
C10_TurnChangeOrdering ==
    IsRunning =>
        \A now \in LaterInstants :
            LET after == evaluate_state(Tracker, now, FALSE, TRUE)
                incoming == after.current_index + 1
            IN  /\ ~after.panicked
                /\ Len(after.items) = Len(items)
                /\ after.timer = Running(now)
                /\ after.items[Current].total_time
                       = items[Current].total_time + (now - timer.last_tick)
                /\ after.current_index = (current_index + 1) % Len(items)
                /\ after.items[incoming].num_turns = AfterFix(incoming) + 1
                /\ Len(items) >= 2 =>
                       /\ incoming # Current
                       /\ after.items[Current].num_turns = AfterFix(Current)
                       /\ after.items[incoming].total_time = items[incoming].total_time
                /\ \A k \in Players \ {Current, incoming} : after.items[k] = items[k]

\* A frame with the next key that credited the first player and handed the
\* turn to the second
C10_Witness ==
    /\ tick # Nothing
    /\ ~tick[1].pause_pressed /\ tick[1].next_pressed
    /\ ~panicked
    /\ timer = Running(tick[1].now)
    /\ Len(items) >= 2
    /\ current_index = 1
    /\ items[1].total_time = 2 /\ items[1].num_turns = 1
    /\ items[2].total_time = 0 /\ items[2].num_turns = 1

Instants == 0..MaxTime
IsPaused == ~panicked /\ timer.tag = "Paused"
Polled == tick # Nothing
SameRoster(after) ==
    /\ after.items = items
    /\ after.current_index = current_index

\* C11: a tick in Running with the pause key moves the timer to Paused and
\* does nothing else: no player's total_time or num_turns changes and
\* current_index stays, also when the next key is down in the same tick and
\* whatever time has passed since last_tick (the roster may even be empty).
C11_PauseOnly ==
    ~panicked /\ timer.tag = "Running" =>
        \A now \in Instants, next_pressed \in BOOLEAN :
            LET after == evaluate_state(Tracker, now, TRUE, next_pressed)
            IN  /\ after.timer = Paused
                /\ SameRoster(after)
                /\ ~after.panicked

\* A tick with both keys at instant 2 that paused a timer which had credited
\* one time unit to the first player and never changed the player
C11_Witness ==
    /\ Polled
    /\ tick[1].pause_pressed /\ tick[1].next_pressed
    /\ tick[1].now = 2
    /\ timer = Paused
    /\ Len(items) >= 2
    /\ current_index = 0
    /\ items[1] = [num_turns |-> 1, total_time |-> 1]
    /\ items[2] = NewPlayer

\* C12: a tick that starts in Paused changes no player's total_time or
\* num_turns and not current_index, whatever the next key is; without the
\* pause key the timer stays Paused, with it the timer is Running{now}; so
\* the first tick after the resume credits only the time since the resume.
C12_PausedTick ==
    IsPaused =>
        \A now \in Instants, next_pressed \in BOOLEAN :
            LET stays == evaluate_state(Tracker, now, FALSE, next_pressed)
                resumed == evaluate_state(Tracker, now, TRUE, next_pressed)
            IN  /\ stays.timer = Paused /\ SameRoster(stays) /\ ~stays.panicked
                /\ resumed.timer = Running(now) /\ SameRoster(resumed)
                /\ ~resumed.panicked
                /\ Len(items) >= 1 =>
                       \A later \in {t \in Instants : t >= now} :
                           evaluate_state(resumed, later, FALSE, FALSE)
                                   .items[Current].total_time
                               = items[Current].total_time + (later - now)

\* A resume at instant 2, with the next key down, of a timer that had
\* credited one time unit before it was paused
C12_Witness ==
    /\ Polled
    /\ tick[1].pause_pressed /\ tick[1].next_pressed
    /\ tick[1].now = 2
    /\ ~panicked
    /\ timer = Running(2)
    /\ Len(items) >= 2
    /\ current_index = 0
    /\ items[1] = [num_turns |-> 1, total_time |-> 1]
    /\ items[2] = NewPlayer

\* C13: the timer starts Paused and changes phase only on a tick with the
\* pause key: a tick with the pause key in Paused gives Running, and every
\* tick without it that follows leaves the timer Running; a tick without
\* the pause key never changes the phase.
C13_IdempotentPause ==
    /\ ~Polled => timer = Paused
    /\ ~panicked =>
           \A now \in Instants, next_pressed \in BOOLEAN :
               LET quiet == evaluate_state(Tracker, now, FALSE, next_pressed)
                   toggled == evaluate_state(Tracker, now, TRUE, next_pressed)
               IN  /\ quiet.timer.tag = timer.tag
                   /\ toggled.timer.tag # timer.tag
                   /\ timer.tag = "Paused" =>
                          /\ toggled.timer = Running(now)
                          /\ \A later \in Instants, next2 \in BOOLEAN :
                                 evaluate_state(toggled, later, FALSE, next2).timer.tag
                                     = "Running"

\* A tick without the pause key that left the timer Running
C13_Witness ==
    /\ Polled
    /\ ~tick[1].pause_pressed
    /\ ~panicked
    /\ timer = Running(tick[1].now)
    /\ Len(items) >= 1
    /\ items[1] = [num_turns |-> 1, total_time |-> 2]

\* n calls of increment()
RECURSIVE Advance(_, _)
Advance(self, n) == IF n = 0 THEN self ELSE Advance(increment(self), n - 1)

\* C14: for a roster of any length L >= 1 and any current_index, one
\* increment() sets current_index to (current_index + 1) mod L, and L of
\* them bring current_index back to where it was.
C14_CycleWrap ==
    Len(items) >= 1 =>
        /\ increment(Tracker).panicked = panicked
        /\ increment(Tracker).current_index = (current_index + 1) % Len(items)
        /\ increment(Tracker).items = items
        /\ Advance(Tracker, Len(items)).current_index = current_index
        /\ \A n \in 1..(Len(items) - 1) :
               Advance(Tracker, n).current_index # current_index

\* Three next keys on a roster of three brought the turn back to the first
\* player
C14_Witness ==
    /\ Polled
    /\ tick[1].next_pressed
    /\ ~panicked
    /\ Len(items) = 3
    /\ current_index = 0
    /\ items[1].num_turns = 2
    /\ items[2].num_turns = 1
    /\ items[3].num_turns = 1

\* C15: in every reachable state with a non-empty roster
\* 0 <= current_index < len; push appends at the end and does not move
\* current_index.
C15_IndexValid ==
    /\ Len(items) >= 1 => 0 <= current_index /\ current_index < Len(items)
    /\ push(Tracker, NewPlayer).current_index = current_index
    /\ push(Tracker, NewPlayer).items = Append(items, NewPlayer)
    /\ push(Tracker, NewPlayer).timer = timer

\* The last player of a roster of three is the current one
C15_Witness ==
    /\ ~panicked
    /\ Len(items) = 3
    /\ current_index = 2
    /\ items[3].num_turns = 1
    /\ timer.tag = "Running"

\* C16: with an empty roster, check_invariants() and increment() panic, and
\* a tick in Running without the pause key ends in the panic and modifies
\* nothing.
C16_EmptyRosterPanics ==
    ~panicked /\ Len(items) = 0 =>
        /\ ~check_invariants(Tracker)
        /\ increment(Tracker).panicked
        /\ timer.tag = "Running" =>
               \A now \in Instants, next_pressed \in BOOLEAN :
                   LET after == evaluate_state(Tracker, now, FALSE, next_pressed)
                   IN  /\ after.panicked
                       /\ SameRoster(after)
                       /\ after.timer = timer

C16_Witness ==
    /\ panicked
    /\ Len(items) = 0
    /\ timer.tag = "Running"
    /\ Polled
    /\ ~tick[1].pause_pressed
    /\ tick[1].now >= timer.last_tick

\* C17: a tick in Running without the pause key at an instant before
\* last_tick ends in the panic: the negative elapsed time is not clamped to
\* zero and no player's total_time or num_turns is modified.
C17_NegativeElapsedPanics ==
    ~panicked /\ timer.tag = "Running" =>
        \A now \in {t \in Instants : t < timer.last_tick}, next_pressed \in BOOLEAN :
            LET after == evaluate_state(Tracker, now, FALSE, next_pressed)
            IN  /\ after.panicked
                /\ SameRoster(after)
                /\ after.timer = timer

C17_Witness ==
    /\ panicked
    /\ Len(items) >= 1
    /\ timer.tag = "Running"
    /\ Polled
    /\ ~tick[1].pause_pressed
    /\ tick[1].now < timer.last_tick
    /\ items[1].total_time = 1

-----------------------------------------------------------------------------
(* Properties of the puzzle's history.                                     *)

\* h is g with at most one entry appended at the end
Extends(h, g) ==
    \/ h = g
    \/ Len(h) = Len(g) + 1 /\ SubSeq(h, 1, Len(g)) = g

\* C18: the history is append-only and capped: it never holds more than 8
\* entries, every step leaves it unchanged or appends exactly one entry at
\* the end, and the password never changes after creation.
C18_AppendOnly ==
    /\ [](Len(history) <= NUM_GUESSES)
    /\ [][Extends(history', history) /\ password' = password]_vars

\* A frame with the submit key that left three different rows in the
\* history, the board still open
C18_Witness ==
    /\ Playing
    /\ frame.submit
    /\ Len(history) = 3
    /\ history[1].guess # history[2].guess
    /\ history[2].guess # history[3].guess
    /\ state.working_row = EmptyRow

\* C19: the state tag agrees with the history: Victory only if the last
\* entry has 4 correct hits; TooManyGuesses only if the history holds 8
\* entries, none with 4 correct hits; InProgress only if it holds fewer than
\* 8, none with 4 correct hits.
C19_TagAgreesWithHistory ==
    /\ Won => Len(history) >= 1 /\ Winning(Last(history))
    /\ Lost => Len(history) = NUM_GUESSES /\ NoWinIn(history)
    /\ Playing => Len(history) < NUM_GUESSES /\ NoWinIn(history)

\* The game won on its second guess, after a first one that had two of the
\* four slots right
C19_Witness ==
    /\ Won
    /\ Len(history) = 2
    /\ history[1].num_correct_hits = 2
    /\ Winning(history[2])
    /\ history[2].guess = <<B, A, A, B>>

\* C20: a submit while InProgress, all 4 slots filled, appends exactly one
\* entry whose guess is the working row slot by slot and whose hits are
\* evaluate_guess(guess, password); if the result is neither Victory nor
\* TooManyGuesses the state is InProgress with every working slot empty.
C20_SubmitAppendsScoredRow ==
    Playing =>
        \A in \in FrameInputs :
            LET before == BeforeSubmit(in)
                after == AfterFrame(in)
                row == before.state.working_row
            IN  in[3] /\ RowComplete(row)
                    => /\ Len(after.history) = Len(history) + 1
                       /\ SubSeq(after.history, 1, Len(history)) = history
                       /\ \A i \in Slots : Last(after.history).guess[i] = row[i]
                       /\ Hits(Last(after.history))
                              = Hits(evaluate_guess(Last(after.history).guess, password))
                       /\ after.password = password
                       /\ after.state.tag \notin {"Victory", "TooManyGuesses"}
                              => after.state = InProgress(EmptyRow)

\* A frame with the submit key after which the 7th guess is recorded, a row
\* of both colours that is no win, and the board is open and empty
C20_Witness ==
    /\ Playing
    /\ frame.submit
    /\ Len(history) = NUM_GUESSES - 1
    /\ Last(history).guess = <<B, A, B, A>>
    /\ Hits(Last(history)) = Hits(evaluate_guess(<<B, A, B, A>>, password))
    /\ state.working_row = EmptyRow

-----------------------------------------------------------------------------
(* Properties of the clicks on the board.                                  *)

\* The click on the centre of slot i (0..3) of the working row
SlotClick(i) == <<SlotX(i), SlotY(NUM_GUESSES - Len(history))>>

\* The colour the mouse holds once the frame's colour key is applied
ColorInHand(pressed) == UpdateMouseColor(Game, pressed).mouse_color

\* C21: while InProgress a click on slot i of the working row sets that slot
\* to the colour the mouse holds, whatever the slot held, and changes no
\* other slot, nor the history, the password or the state tag; while Victory
\* or TooManyGuesses a click changes nothing.
C21_SlotSet ==
    /\ Playing =>
           \A pressed \in KeyInputs, i \in 0..(NUM_SLOTS_PER_ROW - 1) :
               LET after == update(Game, pressed, SlotClick(i), FALSE)
               IN  /\ after.state.tag = "InProgress"
                   /\ after.state.working_row[i + 1] = ColorInHand(pressed)
                   /\ \A k \in Slots \ {i + 1} :
                          after.state.working_row[k] = state.working_row[k]
                   /\ after.history = history
                   /\ after.password = password
    /\ Terminal =>
           \A in \in FrameInputs : AfterFrame(in) = Game

\* A frame without the submit key that left Orange on a slot of the row in
\* which Orange was already placed on a later slot, the second guess open
C21_Witness ==
    /\ Playing
    /\ ~frame.submit
    /\ Len(history) = 1
    /\ state.working_row = <<A, B, None, B>>
    /\ mouse_color = B

-----------------------------------------------------------------------------
(* Properties of the turn counts and of the credited time.                 *)

\* C22: the first tick that credits time to the first player, whose
\* num_turns is 0, sets that num_turns to 1 with no next key pressed, also
\* when no time has elapsed; a tick that credits a player whose num_turns
\* is 1 or more leaves that num_turns as it is; only a player nothing was
\* ever credited to, the first of the roster, is current with num_turns 0.
C22_FirstAccrual ==
    IsRunning =>
        /\ items[Current].num_turns = 0
               => current_index = 0 /\ \A k \in Players : items[k] = NewPlayer
        /\ \A now \in LaterInstants :
               LET quiet == evaluate_state(Tracker, now, FALSE, FALSE)
                   changed == evaluate_state(Tracker, now, FALSE, TRUE)
                   counted == IF items[Current].num_turns = 0
                              THEN 1
                              ELSE items[Current].num_turns
               IN  /\ ~quiet.panicked
                   /\ quiet.items[Current].num_turns = counted
                   /\ \A k \in Players \ {Current} :
                          quiet.items[k].num_turns = items[k].num_turns
                   /\ Len(items) >= 2 => changed.items[Current].num_turns = counted

\* A tick with no key, at the instant the timer was started, after which the
\* only player has one turn and no time
C22_Witness ==
    /\ Polled
    /\ ~tick[1].pause_pressed /\ ~tick[1].next_pressed
    /\ tick[1].now = 0
    /\ ~panicked
    /\ timer = Running(0)
    /\ items = <<[num_turns |-> 1, total_time |-> 0]>>

\* C24: in every state of the timer a player whose num_turns is 0 has a
\* total_time of 0, under every interleaving of ticks, pauses, player
\* changes and late add_player calls.
C24_NoTimeWithoutTurn ==
    \A k \in Players : items[k].num_turns = 0 => items[k].total_time = 0

\* A player added late who has no turn and no time, next to two players with
\* time to their names
C24_Witness ==
    /\ Len(items) = 3
    /\ items[1].total_time >= 1
    /\ items[2].total_time >= 1
    /\ items[3] = NewPlayer

RECURSIVE SumTotalTime(_)
SumTotalTime(players) ==
    IF players = <<>> THEN 0
    ELSE Head(players).total_time + SumTotalTime(Tail(players))

\* C25: the sum of the players' total_time grows by now - last_tick in a
\* tick that starts in Running without the pause key, after which last_tick
\* is now, and stays as it is in every other step: a tick with the pause
\* key, a tick in Paused, a tick that panics, an add_player.  So the sum is
\* the time spent in Running up to the last tick without the pause key.
C25_TimeConservation ==
    [][LET credited == SumTotalTime(items') - SumTotalTime(items)
       IN  IF /\ Len(items') = Len(items)
              /\ tick' # Nothing
              /\ timer.tag = "Running"
              /\ ~panicked'
              /\ ~tick'[1].pause_pressed
           THEN /\ credited = tick'[1].now - timer.last_tick
                /\ timer' = Running(tick'[1].now)
           ELSE credited = 0]_vars

\* A tick with the pause key at instant 2 that paused the only player's
\* timer, one time unit credited, the second left to nobody
C25_Witness ==
    /\ Polled
    /\ tick[1].pause_pressed /\ ~tick[1].next_pressed
    /\ tick[1].now = 2
    /\ timer = Paused
    /\ items = <<[num_turns |-> 1, total_time |-> 1]>>

-----------------------------------------------------------------------------
(* The misplaced hits as the usual score of the game.                      *)

\* Number of slots of row that hold v
Occurrences(row, v) == Cardinality({i \in Slots : row[i] = v})

RECURSIVE SumMinOccurrences(_, _, _)
SumMinOccurrences(g, p, values) ==
    IF values = {} THEN 0
    ELSE LET v == CHOOSE w \in values : TRUE
         IN  Min(Occurrences(g, v), Occurrences(p, v))
             + SumMinOccurrences(g, p, values \ {v})

\* C23: for every guess and password the misplaced hits are the sum, over
\* the 6 colours v, of the smaller of v's occurrences in the guess and in
\* the password, minus the correct hits; so there are no misplaced hits when
\* 3 or 4 hits are correct.
C23_StandardScore ==
    Evaluated =>
        /\ actual[1].num_misplaced_hits
               = SumMinOccurrences(guess, pword, Color) - actual[1].num_correct_hits
        /\ actual[1].num_correct_hits >= NUM_SLOTS_PER_ROW - 1
               => actual[1].num_misplaced_hits = 0

\* A pair with two matching slots and the other two colours swapped
C23_Witness ==
    /\ Evaluated
    /\ guess = <<A, B, B, C>>
    /\ pword = <<A, C, B, B>>
    /\ Hits(actual[1]) = <<2, 2>>

-----------------------------------------------------------------------------
(* The order of click and submit key within one frame.                     *)

\* C26: within one frame the click is applied before the submit key: a
\* frame that clicks the last empty slot of the working row and has the
\* submit key down records the guess, that slot included, in the same
\* frame; and the click of a frame that ends the row is in the recorded
\* guess, never on the new working row, which is empty, nor on a terminal
\* state.
C26_ClickBeforeSubmit ==
    Playing =>
        \A pressed \in KeyInputs, i \in 0..(NUM_SLOTS_PER_ROW - 1) :
            LET after == update(Game, pressed, SlotClick(i), TRUE)
                row == [state.working_row EXCEPT ![i + 1] = ColorInHand(pressed)]
            IN  RowComplete(row)
                    => /\ Len(after.history) = Len(history) + 1
                       /\ SubSeq(after.history, 1, Len(history)) = history
                       /\ \A k \in Slots : Last(after.history).guess[k] = row[k]
                       /\ after.state.tag = "InProgress"
                              => after.state.working_row = EmptyRow
                       /\ after.state.tag # "InProgress"
                              => after.state = StateAfterGuess(Last(after.history),
                                                               Len(after.history))

\* A frame with the submit key that recorded the 8th guess, Orange on its
\* last slot alone, and lost the game
C26_Witness ==
    /\ Lost
    /\ frame.submit
    /\ mouse_color = B
    /\ history[NUM_GUESSES - 1].guess = <<A, A, A, A>>
    /\ Last(history).guess = <<A, A, A, B>>

====
